---- MODULE Spec2Model ----
(***************************************************************************)
(* Model of the signal synthesizer (generate_noisy_signal) and the         *)
(* band-energy feature extractor (extract_features) of the ANN / KNN       *)
(* notebooks.                                                              *)
(*                                                                         *)
(* Real numbers are fixed-point integers in units of 1/Scale.  A duration  *)
(* T is an exact rational [num, den]; a time-grid point is a rational too. *)
(* Phases are counted in quarter turns (pi/2).  The cosine is a table over *)
(* TabPeriod equal steps of one turn, the angle rounded to the nearest     *)
(* step.  A random generator is a position in a fixed stream of period     *)
(* RngPeriod: drawing k numbers reads k stream values and advances the     *)
(* position by k.  A float result is a record [kind, val], kind being      *)
(* "num", "inf" or "nan".                                                  *)
(***************************************************************************)
EXTENDS Integers, Sequences, FiniteSets

VARIABLES
    args,        \* the arguments the session calls generate_noisy_signal with
    np_random,   \* position of the process-wide generator behind np.random.randn
    gen,         \* outcome of the last generate_noisy_signal(args) call
    ext,         \* the last extract_features call: its arguments and outcome
    rs,          \* position of the seeded generator rs
    dbargs,      \* the notebook variant, the slider value and the arguments
                 \* the session calls generate_database with
    db,          \* the frame of the running generate_database call
    results      \* what the completed generate_database calls returned

vars == <<args, np_random, gen, ext, rs, dbargs, db, results>>

----------------------------------------------------------------------------
(* Bounds of the model *)

MaxRate == 4        \* sample_frequency ranges over 1..MaxRate
MaxHalves == 5      \* T = h/2 seconds with h in 0..MaxHalves
MaxTones == 2       \* each of amplitudes, frequencies, phases has 0..MaxTones entries
MaxBands == 8       \* N ranges over 0..MaxBands
RngPeriod == 3      \* period of the random stream behind np.random
RsPeriod == 11      \* period of the random stream behind rs
MaxSamples == 2     \* num_samples ranges over 0..MaxSamples
MaxTicks == 2       \* generate_database: T = h/10000 seconds, h in 0..MaxTicks
MaxWindows == 3     \* num_windows ranges over 0..MaxWindows
MaxRuns == 3        \* generate_database calls per session

(* Number representation *)

Scale == 100        \* fixed-point unit: the integer v stands for v/Scale
TabPeriod == 240    \* cosine table steps per turn

SampleRates == 1..MaxRate
Durations == [num : 0..MaxHalves, den : {2}]
NoiseLevels == {0, 1}
BandCounts == 0..MaxBands

\* the tone arrays are the leading entries of fixed sequences: tone k has
\* amplitude 2, 1, 2, ..., frequency k Hz and phase 0, pi/2, 0, ...
AmplitudeArrays == {[k \in 1..len |-> 1 + (k % 2)] : len \in 0..MaxTones}
FrequencyArrays == {[k \in 1..len |-> k] : len \in 0..MaxTones}
PhaseArrays == {[k \in 1..len |-> (k - 1) % 2] : len \in 0..MaxTones}

Min(a, b) == IF a <= b THEN a ELSE b

----------------------------------------------------------------------------
(* numpy primitives used by the notebooks *)

QuarterCos ==
    <<100, 100, 100, 100, 99, 99, 99, 98, 98, 97, 97, 96, 95, 94, 93, 92,
      91, 90, 89, 88, 87, 85, 84, 82, 81, 79, 78, 76, 74, 73, 71, 69, 67,
      65, 63, 61, 59, 57, 54, 52, 50, 48, 45, 43, 41, 38, 36, 33, 31, 28,
      26, 23, 21, 18, 16, 13, 10, 8, 5, 3, 0>>

\* np.cos at m/TabPeriod of a turn, times Scale
cos(m) ==
    LET r == m % TabPeriod
        q == TabPeriod \div 4
    IN  IF r <= q THEN QuarterCos[r + 1]
        ELSE IF r <= 2 * q THEN -QuarterCos[2 * q - r + 1]
        ELSE IF r <= 3 * q THEN -QuarterCos[r - 2 * q + 1]
        ELSE QuarterCos[4 * q - r + 1]

\* np.sin at m/TabPeriod of a turn, times Scale
sin(m) == cos(m + 3 * (TabPeriod \div 4))

\* a / b rounded to the nearest integer, a >= 0, b > 0
RoundDiv(a, b) == (2 * a + b) \div (2 * b)

\* floor of the square root of x >= 0
RECURSIVE SqrtSearch(_, _, _)
SqrtSearch(x, lo, hi) ==
    IF lo >= hi THEN lo
    ELSE LET mid == (lo + hi + 1) \div 2
         IN  IF mid * mid <= x THEN SqrtSearch(x, mid, hi)
             ELSE SqrtSearch(x, lo, mid - 1)

Isqrt(x) == SqrtSearch(x, 0, Min(x, 46340))

\* value number s of the standard-normal stream, times Scale
RandnStream(s) == (((7 * s + 3) % 4) * Scale) - (3 * Scale) \div 2

\* np.random.randn(n) with the generator at position state
randn(state, n) == [k \in 1..n |-> RandnStream((state + k - 1) % RngPeriod)]

\* the generator left where it was
advance_none(state, n) == state

\* the generator position after n draws
advance(state, n) == (state + n) % RngPeriod

----------------------------------------------------------------------------
(* generate_noisy_signal *)

\* the product rounded up instead of truncated
num_points_ceil(T, sample_frequency) ==
    (T.num * sample_frequency + T.den - 1) \div T.den

\* N = int(T*sample_frequency)
num_points(T, sample_frequency) == (T.num * sample_frequency) \div T.den

\* np.linspace(0, T, N, endpoint=True): t_k = k*T/(N-1)
linspace_endpoint(T, N) ==
    [k \in 1..N |-> [num |-> (k - 1) * T.num,
                     den |-> T.den * (IF N > 1 THEN N - 1 ELSE 1)]]

\* t = np.linspace(0, T, N, endpoint=False): t_k = k*T/N, k = 0..N-1
linspace(T, N) == [k \in 1..N |-> [num |-> (k - 1) * T.num, den |-> T.den * N]]

\* only the first of the two assertions
lengths_agree_first_only(amplitudes, frequencies, phases) ==
    Len(frequencies) = Len(phases)

\* assert len(frequencies) == len(phases); assert len(amplitudes) == len(phases)
lengths_agree(amplitudes, frequencies, phases) ==
    /\ Len(frequencies) = Len(phases)
    /\ Len(amplitudes) = Len(phases)

\* the noise added without its scale factor
noise_term_unscaled(noise, state, n) == randn(state, n)

\* n = noise*np.random.randn(len(t))
noise_term(noise, state, n) ==
    LET draws == randn(state, n)
    IN  [k \in 1..n |-> noise * draws[k]]

\* A*np.cos(2*np.pi*f*t+p) at one grid point t
tone(A, f, p, t) ==
    A * cos(RoundDiv(f * t.num * TabPeriod, t.den) + p * (TabPeriod \div 4))

\* sum([... for (A,f,p) in zip(amplitudes, frequencies, phases)]) at one grid
\* point: zip stops at the shortest array, sum starts from 0
RECURSIVE sum_tones(_, _, _, _, _)
sum_tones(amplitudes, frequencies, phases, t, i) ==
    IF i = 0 THEN 0
    ELSE sum_tones(amplitudes, frequencies, phases, t, i - 1)
         + tone(amplitudes[i], frequencies[i], phases[i], t)

zip_len(amplitudes, frequencies, phases) ==
    Min(Len(amplitudes), Min(Len(frequencies), Len(phases)))

\* the returned signal: n + sum([...])
signal_of(amplitudes, frequencies, phases, n, t) ==
    [k \in 1..Len(t) |->
        n[k] + sum_tones(amplitudes, frequencies, phases, t[k],
                         zip_len(amplitudes, frequencies, phases))]

\* the outcome of one call: what it returns or raises, and the generator
\* position it leaves
generate_noisy_signal(sample_frequency, amplitudes, frequencies, phases, noise, T, state) ==
    LET N == num_points(T, sample_frequency)
        t == linspace(T, N)
    IN  IF lengths_agree(amplitudes, frequencies, phases)
        THEN LET n == noise_term(noise, state, Len(t))
             IN  [status |-> "ok", entry |-> state, t |-> t,
                  signal |-> signal_of(amplitudes, frequencies, phases, n, t),
                  np_random |-> advance(state, Len(t))]
        ELSE [status |-> "AssertionError", entry |-> state, t |-> <<>>,
              signal |-> <<>>, np_random |-> state]

\* the noise drawn before the assertions are reached
GenerateNoisySignal_early ==
    LET r == generate_noisy_signal(args.sample_frequency, args.amplitudes,
                                   args.frequencies, args.phases, args.noise,
                                   args.T, np_random)
    IN  /\ gen' = [status |-> r.status, entry |-> r.entry, t |-> r.t,
                   signal |-> r.signal]
        /\ np_random' = advance(np_random, num_points(args.T, args.sample_frequency))
        /\ UNCHANGED <<args, ext, rs, dbargs, db, results>>

GenerateNoisySignal ==
    LET r == generate_noisy_signal(args.sample_frequency, args.amplitudes,
                                   args.frequencies, args.phases, args.noise,
                                   args.T, np_random)
    IN  /\ gen' = [status |-> r.status, entry |-> r.entry, t |-> r.t,
                   signal |-> r.signal]
        /\ np_random' = r.np_random
        /\ UNCHANGED <<args, ext, rs, dbargs, db, results>>

----------------------------------------------------------------------------
(* extract_features *)

\* length of a full (two-sided) transform
fft_len(n) == n

\* the bins below the Nyquist bin only
rfft_len_half(n) == n \div 2

\* number of bins np.fft.rfft returns for n real samples
rfft_len(n) == (n \div 2) + 1

\* bin k of the discrete Fourier transform of signal, k = 0, 1, ...
rfft_bin(signal, k) ==
    LET n == Len(signal)
        angle(j) == RoundDiv((((j - 1) * k) % n) * TabPeriod, n)
        re[j \in 0..n] == IF j = 0 THEN 0 ELSE re[j - 1] + signal[j] * cos(angle(j))
        im[j \in 0..n] == IF j = 0 THEN 0 ELSE im[j - 1] - signal[j] * sin(angle(j))
    IN  [re |-> re[n] \div Scale, im |-> im[n] \div Scale]

\* rfft = np.fft.rfft(signal)
rfft(signal) == [b \in 1..rfft_len(Len(signal)) |-> rfft_bin(signal, b - 1)]

\* np.abs of a complex value
abs(z) == Isqrt(z.re * z.re + z.im * z.im)

\* the magnitudes stored from the last bin to the first
mag_of_reversed(signal, spectrum) ==
    [b \in 1..Len(spectrum) |->
        abs(spectrum[Len(spectrum) + 1 - b]) \div Len(signal)]

\* mag = 1/len(signal) * np.abs(rfft)
mag_of(signal, spectrum) == [b \in 1..Len(spectrum) |-> abs(spectrum[b]) \div Len(signal)]

\* f_per_band = len(rfft)//N
f_per_band(L, N) == L \div N

\* the operands exchanged: N % len(rfft)
rem_swapped(L, N) == N % L

\* rem = len(rfft) % N
rem(L, N) == L % N

\* np.full alone, the remainder dropped
freq_per_band_no_rem(L, N) == [i \in 1..N |-> f_per_band(L, N)]

\* the whole remainder added to the last band
freq_per_band_last(L, N) ==
    [i \in 1..N |-> f_per_band(L, N) + (IF i = N THEN rem(L, N) ELSE 0)]

\* the extra bins given to the last rem bands
freq_per_band_back(L, N) ==
    [i \in 1..N |-> f_per_band(L, N) + (IF i > N - rem(L, N) THEN 1 ELSE 0)]

\* freq_per_band = np.full(N, f_per_band); freq_per_band[:rem] += 1
freq_per_band(L, N) ==
    [i \in 1..N |-> f_per_band(L, N) + (IF i <= rem(L, N) THEN 1 ELSE 0)]

\* np.cumsum
cumsum(a) ==
    LET c[i \in 0..Len(a)] == IF i = 0 THEN 0 ELSE c[i - 1] + a[i]
    IN  [i \in 1..Len(a) |-> c[i]]

\* the band sizes stored without the running sum
offsets_no_cumsum(sizes) ==
    [i \in 1..(Len(sizes) + 1) |-> IF i = 1 THEN 0 ELSE sizes[i - 1]]

\* offsets = np.zeros(N+1); offsets[1:] = np.cumsum(freq_per_band)
offsets_of(sizes) ==
    LET c == cumsum(sizes)
    IN  [i \in 1..(Len(sizes) + 1) |-> IF i = 1 THEN 0 ELSE c[i - 1]]

Num(v) == [kind |-> "num", val |-> v]
Inf == [kind |-> "inf", val |-> 0]
NaN == [kind |-> "nan", val |-> 0]

\* np.sum(mag[a:b]**2): the slice holds the bins a <= k < b that exist
sum_sq(mag, a, b) ==
    LET hi == Min(b, Len(mag))
        s[k \in a..(IF hi > a THEN hi ELSE a)] ==
            IF k = a THEN 0 ELSE s[k - 1] + mag[k] * mag[k]
    IN  IF hi > a THEN s[hi] ELSE 0

\* 1/d * s in floating point: 1/0 is inf, inf*0 is nan
scaled(d, s) ==
    IF d = 0 THEN (IF s = 0 THEN NaN ELSE Inf) ELSE Num(s \div d)

\* np.sqrt
sqrt(x) ==
    IF x.kind = "num"
    THEN (IF x.val >= 0 THEN Num(Isqrt(x.val)) ELSE NaN)
    ELSE x

\* an empty band given the value 0 instead of being divided
band_rms_guarded(mag, a, b) ==
    IF b - a = 0 THEN Num(0) ELSE sqrt(scaled(b - a, sum_sq(mag, a, b)))

\* np.sqrt(1/(offsets[i+1]-offsets[i])*np.sum(mag[offsets[i]:offsets[i+1]]**2))
band_rms(mag, a, b) == sqrt(scaled(b - a, sum_sq(mag, a, b)))

\* the magnitudes divided by the sampling frequency instead of len(signal)
extract_features_scaled(signal, N, sampling_frequency) ==
    IF Len(signal) = 0
    THEN [status |-> "ValueError", signal |-> signal, N |-> N, L |-> 0,
          freq_per_band |-> <<>>, offsets |-> <<>>, RMS_amplitude |-> <<>>]
    ELSE LET spectrum == rfft(signal)
             L == Len(spectrum)
         IN  IF N = 0
             THEN [status |-> "ZeroDivisionError", signal |-> signal, N |-> N,
                   L |-> L, freq_per_band |-> <<>>, offsets |-> <<>>,
                   RMS_amplitude |-> <<>>]
             ELSE LET sizes == freq_per_band(L, N)
                      offsets == offsets_of(sizes)
                      mag == [b \in 1..L |-> abs(spectrum[b]) \div sampling_frequency]
                  IN  [status |-> "ok", signal |-> signal, N |-> N, L |-> L,
                       freq_per_band |-> sizes, offsets |-> offsets,
                       RMS_amplitude |->
                           [i \in 1..N |-> band_rms(mag, offsets[i], offsets[i + 1])]]

\* the outcome of one call: the feature vector and the locals it was built
\* from, or the error raised
extract_features(signal, N, sampling_frequency) ==
    IF Len(signal) = 0
    THEN [status |-> "ValueError", signal |-> signal, N |-> N, L |-> 0,
          freq_per_band |-> <<>>, offsets |-> <<>>, RMS_amplitude |-> <<>>]
    ELSE LET spectrum == rfft(signal)
             L == Len(spectrum)
         IN  IF N = 0
             THEN [status |-> "ZeroDivisionError", signal |-> signal, N |-> N,
                   L |-> L, freq_per_band |-> <<>>, offsets |-> <<>>,
                   RMS_amplitude |-> <<>>]
             ELSE LET sizes == freq_per_band(L, N)
                      offsets == offsets_of(sizes)
                      mag == mag_of(signal, spectrum)
                  IN  [status |-> "ok", signal |-> signal, N |-> N, L |-> L,
                       freq_per_band |-> sizes, offsets |-> offsets,
                       RMS_amplitude |->
                           [i \in 1..N |-> band_rms(mag, offsets[i], offsets[i + 1])]]

\* the signal shifted in place before it is transformed
ExtractFeatures_inplace(N) ==
    /\ gen.status = "ok"
    /\ ext' = extract_features(gen.signal, N, args.sample_frequency)
    /\ gen' = [gen EXCEPT !.signal = [k \in 1..Len(gen.signal) |->
                                         gen.signal[k] - gen.signal[1]]]
    /\ UNCHANGED <<args, np_random, rs, dbargs, db, results>>

\* a band count of 0 answered with an empty feature vector
ExtractFeatures_empty(N) ==
    /\ gen.status = "ok"
    /\ ext' = IF N = 0 /\ Len(gen.signal) > 0
              THEN [status |-> "ok", signal |-> gen.signal, N |-> 0,
                    L |-> rfft_len(Len(gen.signal)), freq_per_band |-> <<>>,
                    offsets |-> <<0>>, RMS_amplitude |-> <<>>]
              ELSE extract_features(gen.signal, N, args.sample_frequency)
    /\ UNCHANGED <<args, np_random, gen, rs, dbargs, db, results>>

ExtractFeatures(N) ==
    /\ gen.status = "ok"
    /\ ext' = extract_features(gen.signal, N, args.sample_frequency)
    /\ UNCHANGED <<args, np_random, gen, rs, dbargs, db, results>>

----------------------------------------------------------------------------
(* The seeded generator rs *)

RsSeed == 0         \* the position RandomState(MT19937(SeedSequence(...))) starts at
RsLevels == 4       \* a raw draw u stands for the number u/RsLevels of [0, 1)

RsTape == <<3, 0, 1, 3, 2, 1, 0, 3, 3, 0, 1, 2, 0, 2, 1, 3>>

\* raw value number p of the stream
RsStream(p) == RsTape[(p % Len(RsTape)) + 1]

\* size consecutive raw values, the generator at position state
rs_draw(state, size) == [k \in 1..size |-> RsStream((state + k - 1) % RsPeriod)]

\* the generator position after size draws
rs_advance(state, size) == (state + size) % RsPeriod

\* rs.uniform(low, high, size=size)
rs_uniform(low, high, state, size) ==
    LET u == rs_draw(state, size)
    IN  [k \in 1..size |-> low + ((high - low) * u[k]) \div RsLevels]

\* rs.random(size), in units of 1/RsLevels
rs_random(state, size) == rs_draw(state, size)

\* rs.random_integers(low, high, size=size): both ends included
rs_random_integers(low, high, state, size) ==
    LET u == rs_draw(state, size)
    IN  [k \in 1..size |-> low + (u[k] % (high - low + 1))]

\* np.pi * u in quarter turns, u in units of 1/RsLevels
pi_times(u) == (2 * u) \div RsLevels

----------------------------------------------------------------------------
(* generate_database, in its three notebook variants:                     *)
(*   "ann"     src/ann.ipynb                                              *)
(*   "knn"     src/unnamed/part_002                                       *)
(*   "ann_old" src/unnamed/part_003                                       *)

\* the whole sample rate instead of its half
frequency_range_full(a) ==
    IF a.variant = "ann" THEN a.sample_rate ELSE 20000

\* upper end of the frequency range
frequency_range(a) ==
    IF a.variant = "ann" THEN a.sample_rate \div 2 ELSE 20000

\* the threshold a frequency is compared with
threshold_of(a) == IF a.variant = "ann" THEN a.threshold ELSE 8000

\* high if frequencies[i]>=threshold else low
label_ann_ge(frequency, threshold, high, low) ==
    IF frequency >= threshold THEN high ELSE low

\* high if frequencies[i]>threshold else low
label_ann(frequency, threshold, high, low) ==
    IF frequency > threshold THEN high ELSE low

\* 1 + np.int32(frequencies[i] > 8e3)
label_knn(frequency) == 1 + (IF frequency > 8000 THEN 1 ELSE 0)

\* labels[i]
label_of(a, frequency) ==
    IF a.variant = "ann"
    THEN label_ann(frequency, a.threshold, a.high, a.low)
    ELSE label_knn(frequency)

\* target_map, a dict: a key given twice keeps the last value
target_map_of(a) ==
    IF a.variant = "ann"
    THEN [k \in {a.low, a.high} |-> IF k = a.high THEN "high" ELSE "low"]
    ELSE IF a.variant = "knn"
    THEN [k \in {1, 2} |-> IF k = 2 THEN "high" ELSE "low"]
    ELSE [k \in {0, 1} |-> IF k = 1 THEN "high" ELSE "low"]

Idle ==
    [pc |-> "idle", rs_entry |-> 0, np_entry |-> 0, A |-> <<>>, phase |-> <<>>,
     noise |-> <<>>, frequencies |-> <<>>, features |-> <<>>, labels |-> <<>>,
     i |-> 0]

\* the generator put back to its seed at the start of every call
DrawAmplitudes_restart ==
    /\ db.pc = "idle"
    /\ Len(results) < MaxRuns
    /\ db' = [Idle EXCEPT !.pc = "phase", !.rs_entry = RsSeed, !.np_entry = np_random,
                          !.A = rs_uniform(-4, 4, RsSeed, dbargs.num_samples)]
    /\ rs' = rs_advance(RsSeed, dbargs.num_samples)
    /\ UNCHANGED <<args, np_random, gen, ext, dbargs, results>>

\* A = rs.uniform(-4, 4, size=num_samples), the first statement of a call
DrawAmplitudes ==
    /\ db.pc = "idle"
    /\ Len(results) < MaxRuns
    /\ db' = [Idle EXCEPT !.pc = "phase", !.rs_entry = rs, !.np_entry = np_random,
                          !.A = rs_uniform(-4, 4, rs, dbargs.num_samples)]
    /\ rs' = rs_advance(rs, dbargs.num_samples)
    /\ UNCHANGED <<args, np_random, gen, ext, dbargs, results>>

\* phase = np.pi * rs.random(num_samples)
DrawPhases ==
    /\ db.pc = "phase"
    /\ db' = [db EXCEPT !.pc = "noise_uniform",
                        !.phase = [k \in 1..dbargs.num_samples |->
                                      pi_times(rs_random(rs, dbargs.num_samples)[k])]]
    /\ rs' = rs_advance(rs, dbargs.num_samples)
    /\ UNCHANGED <<args, np_random, gen, ext, dbargs, results>>

\* rs.uniform(-2, 2, size=num_samples), the left operand of noise
DrawNoiseMagnitudes ==
    /\ db.pc = "noise_uniform"
    /\ db' = [db EXCEPT !.pc = "noise_flags",
                        !.noise = rs_uniform(-2, 2, rs, dbargs.num_samples)]
    /\ rs' = rs_advance(rs, dbargs.num_samples)
    /\ UNCHANGED <<args, np_random, gen, ext, dbargs, results>>

\* the flags drawn but the magnitudes left unmultiplied
DrawNoiseFlags_unused ==
    /\ db.pc = "noise_flags"
    /\ db' = [db EXCEPT !.pc = "frequencies"]
    /\ rs' = rs_advance(rs, dbargs.num_samples)
    /\ UNCHANGED <<args, np_random, gen, ext, dbargs, results>>

\* noise = ... * rs.random_integers(0,1, size=num_samples)
DrawNoiseFlags ==
    /\ db.pc = "noise_flags"
    /\ db' = [db EXCEPT !.pc = "frequencies",
                        !.noise = [k \in 1..dbargs.num_samples |->
                                      db.noise[k]
                                      * rs_random_integers(0, 1, rs, dbargs.num_samples)[k]]]
    /\ rs' = rs_advance(rs, dbargs.num_samples)
    /\ UNCHANGED <<args, np_random, gen, ext, dbargs, results>>

\* frequencies = rs.uniform(0, ..., size=num_samples); features and labels
\* are allocated as zeros
DrawFrequencies ==
    /\ db.pc = "frequencies"
    /\ db' = [db EXCEPT !.pc = "loop",
                        !.frequencies =
                            rs_uniform(0, frequency_range(dbargs), rs, dbargs.num_samples),
                        !.features = [k \in 1..dbargs.num_samples |->
                                         [w \in 1..dbargs.num_windows |-> Num(0)]],
                        !.labels = [k \in 1..dbargs.num_samples |-> 0],
                        !.i = 0]
    /\ rs' = rs_advance(rs, dbargs.num_samples)
    /\ UNCHANGED <<args, np_random, gen, ext, dbargs, results>>

\* arr[a:] : the end of the slice left out
slice_open(arr, a, b) ==
    [j \in 1..(Len(arr) - Min(a, Len(arr))) |-> arr[Min(a, Len(arr)) + j]]

\* arr[a:b] for 0 <= a <= b: both ends are clipped to len(arr)
slice(arr, a, b) ==
    [j \in 1..(Min(b, Len(arr)) - Min(a, Len(arr))) |-> arr[Min(a, Len(arr)) + j]]

\* what a call that raised leaves behind
Raised(status, np_exit) ==
    [status |-> status, rs_entry |-> db.rs_entry, np_entry |-> db.np_entry,
     rs_exit |-> rs, np_exit |-> np_exit, features |-> <<>>, labels |-> <<>>, frequencies |-> <<>>,
     noise |-> <<>>, target_map |-> <<>>]

\* the number of loop iterations: range(num_samples - 1)
loop_count_short(num_samples) == IF num_samples > 0 THEN num_samples - 1 ELSE 0

\* the number of loop iterations: range(num_samples)
loop_count(num_samples) == num_samples

\* one iteration, the noise samples drawn from rs as well
LoopStep_rs ==
    /\ db.pc = "loop"
    /\ db.i < loop_count(dbargs.num_samples)
    /\ LET k == db.i + 1
           r == generate_noisy_signal(dbargs.sample_rate,
                                      slice(db.A, db.i, db.i + 1),
                                      slice(db.frequencies, db.i, db.i + 1),
                                      slice(db.phase, db.i, db.i + 1),
                                      slice(db.noise, db.i, db.i + 1)[1],
                                      dbargs.T, np_random)
           e == extract_features(r.signal, dbargs.num_windows, dbargs.sample_rate)
       IN  /\ np_random' = r.np_random
           /\ IF r.status = "ok" /\ e.status = "ok"
              THEN /\ db' = [db EXCEPT !.features[k] = e.RMS_amplitude,
                                       !.labels[k] = label_of(dbargs, db.frequencies[k]),
                                       !.i = db.i + 1]
                   /\ results' = results
              ELSE /\ db' = Idle
                   /\ results' = Append(results,
                                        Raised(IF r.status = "ok" THEN e.status
                                               ELSE r.status, r.np_random))
    /\ rs' = rs_advance(rs, num_points(dbargs.T, dbargs.sample_rate))
    /\ UNCHANGED <<args, gen, ext, dbargs>>

\* one iteration, the label taken from frequencies[0]
LoopStep_first ==
    /\ db.pc = "loop"
    /\ db.i < loop_count(dbargs.num_samples)
    /\ LET k == db.i + 1
           r == generate_noisy_signal(dbargs.sample_rate,
                                      slice(db.A, db.i, db.i + 1),
                                      slice(db.frequencies, db.i, db.i + 1),
                                      slice(db.phase, db.i, db.i + 1),
                                      slice(db.noise, db.i, db.i + 1)[1],
                                      dbargs.T, np_random)
           e == extract_features(r.signal, dbargs.num_windows, dbargs.sample_rate)
       IN  /\ np_random' = r.np_random
           /\ IF r.status = "ok" /\ e.status = "ok"
              THEN /\ db' = [db EXCEPT !.features[k] = e.RMS_amplitude,
                                       !.labels[k] = label_of(dbargs, db.frequencies[1]),
                                       !.i = db.i + 1]
                   /\ results' = results
              ELSE /\ db' = Idle
                   /\ results' = Append(results,
                                        Raised(IF r.status = "ok" THEN e.status
                                               ELSE r.status, r.np_random))
    /\ UNCHANGED <<args, gen, ext, rs, dbargs>>

\* one iteration of the loop over the samples
LoopStep ==
    /\ db.pc = "loop"
    /\ db.i < loop_count(dbargs.num_samples)
    /\ LET k == db.i + 1
           r == generate_noisy_signal(dbargs.sample_rate,
                                      slice(db.A, db.i, db.i + 1),
                                      slice(db.frequencies, db.i, db.i + 1),
                                      slice(db.phase, db.i, db.i + 1),
                                      slice(db.noise, db.i, db.i + 1)[1],
                                      dbargs.T, np_random)
           e == extract_features(r.signal, dbargs.num_windows, dbargs.sample_rate)
       IN  /\ np_random' = r.np_random
           /\ IF r.status = "ok" /\ e.status = "ok"
              THEN /\ db' = [db EXCEPT !.features[k] = e.RMS_amplitude,
                                       !.labels[k] = label_of(dbargs, db.frequencies[k]),
                                       !.i = db.i + 1]
                   /\ results' = results
              ELSE /\ db' = Idle
                   /\ results' = Append(results,
                                        Raised(IF r.status = "ok" THEN e.status
                                               ELSE r.status, r.np_random))
    /\ UNCHANGED <<args, gen, ext, rs, dbargs>>

\* target_map = ...; return features, labels, feature_names, target_map
Return ==
    /\ db.pc = "loop"
    /\ db.i >= loop_count(dbargs.num_samples)
    /\ results' = Append(results,
                         [status |-> "ok", rs_entry |-> db.rs_entry,
                          np_entry |-> db.np_entry, rs_exit |-> rs,
                          np_exit |-> np_random, features |-> db.features,
                          labels |-> db.labels, frequencies |-> db.frequencies,
                          noise |-> db.noise, target_map |-> target_map_of(dbargs)])
    /\ db' = Idle
    /\ UNCHANGED <<args, np_random, gen, ext, rs, dbargs>>

\* rs = RandomState(MT19937(SeedSequence(random_state))), run between calls
Seed ==
    /\ db.pc = "idle"
    /\ rs # RsSeed
    /\ rs' = RsSeed
    /\ UNCHANGED <<args, np_random, gen, ext, dbargs, db, results>>

----------------------------------------------------------------------------

NoSignal == [status |-> "none", entry |-> 0, t |-> <<>>, signal |-> <<>>]

NoFeatures ==
    [status |-> "none", signal |-> <<>>, N |-> 0, L |-> 0,
     freq_per_band |-> <<>>, offsets |-> <<>>, RMS_amplitude |-> <<>>]

Arguments ==
    [sample_frequency : SampleRates,
     amplitudes : AmplitudeArrays,
     frequencies : FrequencyArrays,
     phases : PhaseArrays,
     noise : NoiseLevels,
     T : Durations]

\* sample_rate=16, T=1, amplitudes=[1.0], frequencies=[2.0], phases=[0.0], noise=0
Scenario ==
    [sample_frequency |-> 16, amplitudes |-> <<1>>, frequencies |-> <<2>>,
     phases |-> <<0>>, noise |-> 0, T |-> [num |-> 1, den |-> 1]]

\* the slider's lowest value and its default
SliderValues == {10000, 40000}

DbArguments ==
    {a \in [variant : {"ann", "knn", "ann_old"},
            sample_rate : SliderValues,
            num_samples : 0..MaxSamples,
            T : [num : 0..MaxTicks, den : {10000}],
            num_windows : 0..MaxWindows,
            high : {3}, low : {7},
            threshold : {8000, 10000}] :
        a.variant # "ann" => a.threshold = 8000}

\* T = 1, num_samples = 1000, num_windows = 25, at the slider's default
NotebookCall ==
    [variant |-> "ann", sample_rate |-> 40000, num_samples |-> 1000,
     T |-> [num |-> 1, den |-> 1], num_windows |-> 25, high |-> 3, low |-> 7,
     threshold |-> 8000]

Init ==
    /\ args \in Arguments \cup {Scenario}
    /\ np_random \in 0..(RngPeriod - 1)
    /\ gen = NoSignal
    /\ ext = NoFeatures
    /\ rs = RsSeed
    /\ dbargs = NotebookCall
    /\ db = Idle
    /\ results = <<>>

Next ==
    \/ GenerateNoisySignal
    \/ \E N \in BandCounts : ExtractFeatures(N)

Spec == Init /\ [][Next]_vars

\* a session that builds databases
InitDb ==
    /\ args = Scenario
    /\ np_random \in 0..(RngPeriod - 1)
    /\ gen = NoSignal
    /\ ext = NoFeatures
    /\ rs = RsSeed
    /\ dbargs \in DbArguments
    /\ db = Idle
    /\ results = <<>>

NextDb ==
    \/ DrawAmplitudes
    \/ DrawPhases
    \/ DrawNoiseMagnitudes
    \/ DrawNoiseFlags
    \/ DrawFrequencies
    \/ LoopStep
    \/ Return
    \/ Seed

SpecDb == InitDb /\ [][NextDb]_vars

\* a session that never runs the seeding cell again
NextUnseeded ==
    \/ DrawAmplitudes
    \/ DrawPhases
    \/ DrawNoiseMagnitudes
    \/ DrawNoiseFlags
    \/ DrawFrequencies
    \/ LoopStep
    \/ Return

SpecUnseeded == InitDb /\ [][NextUnseeded]_vars

----------------------------------------------------------------------------
(* Properties *)

\* the last extract_features call returned a feature vector
Extracted == ext.status = "ok"

\* offsets[i] of the last call, i = 0..N
Off(i) == ext.offsets[i + 1]

\* size of band i of the last call, i = 0..N-1
BandSize(i) == Off(i + 1) - Off(i)

Bands == 0..(ext.N - 1)

\* the precondition 1 <= N <= L of the band partition
Regular == Extracted /\ 1 <= ext.N /\ ext.N <= ext.L

CeilDiv(a, b) == (a + b - 1) \div b

\* C1: for 1 <= N <= L the ranges [offsets[i], offsets[i+1]) start at 0, end
\* at L, are ordered, and every bin index in [0, L) lies in exactly one of them.
C1_BandsPartitionSpectrum ==
    Regular =>
        /\ Off(0) = 0
        /\ Off(ext.N) = ext.L
        /\ \A i \in Bands : Off(i) <= Off(i + 1)
        /\ \A b \in 0..(ext.L - 1) :
               Cardinality({i \in Bands : Off(i) <= b /\ b < Off(i + 1)}) = 1

C1_Witness ==
    Regular /\ ext.N >= 2 /\ ext.L % ext.N # 0 /\ ext.L >= 5

\* C2 as stated: for 1 <= N <= L exactly L mod N bands have size ceil(L/N)
\* and the other N - (L mod N) bands have size floor(L/N), also when N
\* divides L.
C2_CeilCountIsRemainder ==
    Regular =>
        /\ Cardinality({i \in Bands : BandSize(i) = CeilDiv(ext.L, ext.N)})
               = ext.L % ext.N
        /\ Cardinality({i \in Bands : BandSize(i) = ext.L \div ext.N})
               = ext.N - (ext.L % ext.N)

\* C2 amended: for 1 <= N <= L, when N does not divide L exactly L mod N
\* bands have size ceil(L/N) and the other N - (L mod N) bands have size
\* floor(L/N); when N divides L all N bands have size L/N.
C2_BandSizeCounts ==
    Regular =>
        IF ext.L % ext.N # 0
        THEN /\ Cardinality({i \in Bands : BandSize(i) = CeilDiv(ext.L, ext.N)})
                    = ext.L % ext.N
             /\ Cardinality({i \in Bands : BandSize(i) = ext.L \div ext.N})
                    = ext.N - (ext.L % ext.N)
        ELSE \A i \in Bands : BandSize(i) * ext.N = ext.L

C2_Witness ==
    Regular /\ ext.N >= 3 /\ ext.L % ext.N >= 2

\* C3: band i has size floor(L/N) + 1 when i < L mod N and floor(L/N)
\* otherwise: the extra bins go to the first L mod N bands only.
C3_FrontLoadedRemainder ==
    Extracted =>
        \A i \in Bands :
            /\ BandSize(i) = (ext.L \div ext.N) + (IF i < ext.L % ext.N THEN 1 ELSE 0)
            /\ ext.freq_per_band[i + 1] = BandSize(i)

C3_Witness ==
    /\ Extracted
    /\ ext.N >= 3
    /\ ext.L % ext.N = 1
    /\ BandSize(0) = BandSize(1) + 1

\* C4: for 1 <= N <= L every band holds at least one bin, and so every
\* feature value is a number: no band divides by zero.
C4_BandsNonEmpty ==
    Regular =>
        \A i \in Bands :
            /\ BandSize(i) >= 1
            /\ ext.RMS_amplitude[i + 1].kind = "num"

C4_Witness ==
    Regular /\ ext.N = ext.L /\ ext.L >= 3

\* C5: a call with N > L on a non-empty signal raises nothing; the first L
\* bands hold one bin each and have a defined value, the last N - L bands
\* are empty and their value is NaN.
C5_EmptyBandsAreNaN ==
    (ext.status # "none" /\ ext.L >= 1 /\ ext.N > ext.L) =>
        /\ Extracted
        /\ Len(ext.RMS_amplitude) = ext.N
        /\ \A i \in Bands :
               IF i < ext.L
               THEN BandSize(i) = 1 /\ ext.RMS_amplitude[i + 1].kind = "num"
               ELSE BandSize(i) = 0 /\ ext.RMS_amplitude[i + 1].kind = "nan"

C5_Witness ==
    /\ Extracted
    /\ ext.L >= 2
    /\ ext.N >= ext.L + 2
    /\ ext.RMS_amplitude[ext.N].kind = "nan"
    /\ ext.RMS_amplitude[1].kind = "num"

\* C6: the spectrum of a signal of n >= 1 samples has floor(n/2) + 1 bins,
\* whatever the samples and whatever N.
C6_SpectrumLength ==
    (ext.status # "none" /\ Len(ext.signal) >= 1) =>
        /\ 2 * (ext.L - 1) <= Len(ext.signal)
        /\ Len(ext.signal) <= 2 * (ext.L - 1) + 1

C6_Witness ==
    Extracted /\ Len(ext.signal) % 2 = 1 /\ Len(ext.signal) >= 5

\* the last generate_noisy_signal call returned
Generated == gen.status = "ok"

\* a < b for rationals with positive denominators
RatLess(a, b) == a.num * b.den < b.num * a.den

\* C7: the time grid and the signal both have int(T*sample_frequency)
\* entries, the product truncated, whole or not.
C7_LengthIsTruncatedProduct ==
    Generated =>
        /\ Len(gen.t) = Len(gen.signal)
        /\ Len(gen.signal) * args.T.den <= args.T.num * args.sample_frequency
        /\ args.T.num * args.sample_frequency < (Len(gen.signal) + 1) * args.T.den

C7_Witness ==
    /\ Generated
    /\ (args.T.num * args.sample_frequency) % args.T.den # 0
    /\ Len(gen.signal) >= 2

\* C8: with n = int(T*sample_frequency) >= 1 grid points, point k is
\* k*T/n: the grid starts at 0, increases strictly and ends below T.
C8_UniformGrid ==
    (Generated /\ Len(gen.t) >= 1) =>
        LET n == Len(gen.t)
        IN  /\ gen.t[1].num = 0
            /\ \A k \in 0..(n - 1) :
                   /\ gen.t[k + 1].den > 0
                   /\ gen.t[k + 1].num * (args.T.den * n)
                          = (k * args.T.num) * gen.t[k + 1].den
            /\ \A k \in 1..(n - 1) : RatLess(gen.t[k], gen.t[k + 1])
            /\ RatLess(gen.t[n], args.T)

C8_Witness ==
    Generated /\ Len(gen.t) >= 3 /\ args.T.num % args.T.den # 0

\* the three tone arrays have one common length
SameLengths ==
    /\ Len(args.amplitudes) = Len(args.frequencies)
    /\ Len(args.frequencies) = Len(args.phases)

\* C9: a call whose amplitudes, frequencies and phases differ in length
\* raises AssertionError and returns neither grid nor signal.
C9_MismatchRaises ==
    (gen.status # "none" /\ ~SameLengths) =>
        /\ gen.status = "AssertionError"
        /\ gen.signal = <<>>
        /\ gen.t = <<>>

C9_Witness ==
    /\ gen.status = "AssertionError"
    /\ Len(args.frequencies) = Len(args.phases)
    /\ Len(args.amplitudes) < Len(args.phases)
    /\ args.T.num * args.sample_frequency >= args.T.den

\* C10: with noise 0, a call that follows a call with the same arguments
\* returns the same signal, wherever the generator stood at each call.
C10_NoiselessDeterminism ==
    [][(Generated /\ gen'.status = "ok" /\ args.noise = 0 /\ args' = args)
           => gen'.signal = gen.signal]_vars

C10_Witness ==
    /\ Generated
    /\ args.noise = 0
    /\ Len(args.amplitudes) >= 1
    /\ Len(gen.signal) >= 2
    /\ gen.entry # np_random

C12_ExtractIsPure ==
    [][/\ ext' # ext =>
              /\ UNCHANGED <<args, np_random, rs, gen, dbargs, db, results>>
              /\ ext'.signal = gen.signal
       /\ (ext.status = "ok" /\ ext'.status = "ok"
              /\ ext'.signal = ext.signal /\ ext'.N = ext.N) =>
              ext'.RMS_amplitude = ext.RMS_amplitude]_vars

C12_Witness ==
    /\ Extracted
    /\ ext.signal = gen.signal
    /\ args.noise = 1
    /\ ext.N >= 2
    /\ gen.signal[1] # 0

\* generate_database call number i returned
Returned(i) == i \in 1..Len(results) /\ results[i].status = "ok"

\* C13: two generate_database runs with the same arguments and sample rate,
\* each started with rs freshly seeded, return identical feature matrices
\* and identical label vectors, also for samples with a non-zero noise scale.
C13_SeededRunsAgree ==
    \A i, j \in 1..Len(results) :
        (Returned(i) /\ Returned(j)
            /\ results[i].rs_entry = RsSeed /\ results[j].rs_entry = RsSeed) =>
            /\ results[i].features = results[j].features
            /\ results[i].labels = results[j].labels

\* C14: after a generate_database run no process-wide state other than rs
\* differs from before the run, in particular no other generator's state.
C14_OnlyRsAdvances ==
    \A i \in 1..Len(results) :
        Returned(i) => results[i].np_exit = results[i].np_entry

\* the label vector's entry for a frequency above, or not above, the threshold
HighLabel == IF dbargs.variant = "ann" THEN dbargs.high ELSE 2
LowLabel == IF dbargs.variant = "ann" THEN dbargs.low ELSE 1

\* C15: in every returned label vector a sample has the high label exactly
\* when its drawn frequency is strictly greater than the threshold and the
\* low label otherwise, a frequency equal to the threshold being low; with
\* threshold 8000, 9000 is labelled high and 500 low.
C15_LabelIffAboveThreshold ==
    /\ \A i \in 1..Len(results) : Returned(i) =>
          \A k \in 1..Len(results[i].labels) :
              /\ results[i].frequencies[k] > threshold_of(dbargs)
                    <=> results[i].labels[k] = HighLabel
              /\ results[i].frequencies[k] <= threshold_of(dbargs)
                    <=> results[i].labels[k] = LowLabel
    /\ label_ann(9000, 8000, 3, 7) = 3
    /\ label_ann(500, 8000, 3, 7) = 7
    /\ label_ann(8000, 8000, 3, 7) = 7

C15_Witness ==
    /\ Returned(1)
    /\ dbargs.variant = "ann"
    /\ \E k \in 1..Len(results[1].labels) :
          /\ results[1].frequencies[k] = dbargs.threshold
          /\ results[1].labels[k] = dbargs.low

\* C16: in every notebook variant each returned label is a key of the
\* returned target_map, that map has exactly two keys, and it names a
\* sample's label "high" if its frequency exceeded the threshold and "low"
\* otherwise.
C16_LabelsAreTargetMapKeys ==
    \A i \in 1..Len(results) : Returned(i) =>
        /\ Cardinality(DOMAIN results[i].target_map) = 2
        /\ \A k \in 1..Len(results[i].labels) :
              /\ results[i].labels[k] \in DOMAIN results[i].target_map
              /\ results[i].target_map[results[i].labels[k]] =
                    IF results[i].frequencies[k] > threshold_of(dbargs)
                    THEN "high" ELSE "low"

C18_ConcreteScenario ==
    args = Scenario =>
        /\ gen.status # "none" =>
              /\ gen.status = "ok"
              /\ Len(gen.t) = 16
              /\ Len(gen.signal) = 16
        /\ Extracted =>
              /\ Len(ext.signal) = 16
              /\ ext.L = 9
              /\ ext.N = 3 =>
                    /\ ext.freq_per_band = <<3, 3, 3>>
                    /\ Off(0) <= 2 /\ 2 < Off(1)
                    /\ \A i \in 1..3 :
                          /\ ext.RMS_amplitude[i].kind = "num"
                          /\ ext.RMS_amplitude[1].val >= ext.RMS_amplitude[i].val
                    /\ ext.RMS_amplitude[1].val > 0

C18_Witness ==
    /\ args = Scenario
    /\ Generated
    /\ Extracted
    /\ ext.N = 3
    /\ ext.signal = gen.signal
    /\ ext.RMS_amplitude[1].val > ext.RMS_amplitude[2].val

\* the last extraction was of a noiseless one-tone signal whose frequency is
\* at most half the sample rate, with 1 <= N <= len(rfft)
PureTone ==
    /\ Generated
    /\ Extracted
    /\ ext.signal = gen.signal
    /\ Len(args.amplitudes) = 1
    /\ Len(args.frequencies) = 1
    /\ Len(args.phases) = 1
    /\ args.noise = 0
    /\ 2 * args.frequencies[1] <= args.sample_frequency
    /\ 1 <= ext.N
    /\ ext.N <= ext.L

\* the tone's frequency is a whole multiple of the bin spacing
\* sample_frequency / len(signal)
OnBin == (args.frequencies[1] * Len(ext.signal)) % args.sample_frequency = 0

\* the last bin at or below the tone's frequency
FloorBin == (args.frequencies[1] * Len(ext.signal)) \div args.sample_frequency

\* the first bin at or above the tone's frequency, if the spectrum has it
CeilBin == IF OnBin \/ FloorBin + 1 >= ext.L THEN FloorBin ELSE FloorBin + 1

\* the band whose index range holds bin b
BandOf(b) == CHOOSE i \in 0..(ext.N - 1) : Off(i) <= b /\ b < Off(i + 1)

\* band i has the largest feature value
IsLargest(i) ==
    \A j \in 1..ext.N :
        /\ ext.RMS_amplitude[j].kind = "num"
        /\ ext.RMS_amplitude[i + 1].val >= ext.RMS_amplitude[j].val

\* C19: for a noiseless one-tone signal with frequency f at most half the
\* sample rate and any band count 1 <= N <= len(rfft), the band that contains
\* the bin of f has the largest RMS of the N bands; the bin of f is the bin f
\* falls on, and when f lies between two bins it is one of those two.
C19_ToneBandIsLargest ==
    PureTone =>
        /\ FloorBin < ext.L
        /\ IsLargest(BandOf(FloorBin)) \/ IsLargest(BandOf(CeilBin))

C19_Witness ==
    /\ PureTone
    /\ OnBin
    /\ FloorBin >= 1
    /\ ext.N >= 2
    /\ ext.N < ext.L
    /\ BandOf(FloorBin) >= 1
    /\ ext.RMS_amplitude[BandOf(FloorBin) + 1].val > ext.RMS_amplitude[1].val

\* the position rs has after d batches of num_samples draws of the running call
RsAfter(d) == (db.rs_entry + d * dbargs.num_samples) % RsPeriod

\* the running call has executed at least its statement number d
Past(d) ==
    \/ d <= 1 /\ db.pc = "phase"
    \/ d <= 2 /\ db.pc = "noise_uniform"
    \/ d <= 3 /\ db.pc = "noise_flags"
    \/ d <= 4 /\ db.pc = "frequencies"
    \/ d <= 5 /\ db.pc = "loop"

\* C20: within one generate_database call rs yields, in this order, the
\* num_samples amplitudes, the phases, the noise magnitudes, the noise flags
\* and the frequencies, all before the first signal is synthesized, and the
\* loop over the samples draws nothing from rs.
C20_DrawOrder ==
    LET n == dbargs.num_samples
        batch(d) == [k \in 1..n |-> RsStream((RsAfter(d) + k - 1) % RsPeriod)]
    IN  /\ Past(1) => db.A = [k \in 1..n |-> -4 + (8 * batch(0)[k]) \div RsLevels]
        /\ Past(2) => db.phase = [k \in 1..n |-> pi_times(batch(1)[k])]
        /\ db.pc = "noise_flags" =>
              db.noise = [k \in 1..n |-> -2 + (4 * batch(2)[k]) \div RsLevels]
        /\ Past(4) =>
              db.noise = [k \in 1..n |->
                             (-2 + (4 * batch(2)[k]) \div RsLevels) * (batch(3)[k] % 2)]
        /\ Past(5) =>
              db.frequencies =
                  [k \in 1..n |-> (frequency_range(dbargs) * batch(4)[k]) \div RsLevels]
        /\ \A d \in 1..5 : (Past(d) /\ ~Past(d + 1)) => rs = RsAfter(d)
        /\ (Past(1) /\ ~Past(5)) => (db.i = 0 /\ np_random = db.np_entry)
        /\ \A i \in 1..Len(results) : Returned(i) =>
              results[i].rs_exit =
                  (results[i].rs_entry + 5 * n) % RsPeriod

C20_Witness ==
    /\ db.pc = "loop"
    /\ dbargs.num_samples >= 2
    /\ db.i >= 2
    /\ np_random # db.np_entry
    /\ rs = RsAfter(5)
    /\ rs # db.rs_entry

\* C21: each loop iteration writes, for its own sample index i, the feature
\* vector of the signal synthesized from the i-th amplitude, frequency, phase
\* and noise scale into row i and the label of that same i-th frequency into
\* labels[i], and leaves every other row and label as it was.
C21_RowAndLabelOfSameSample ==
    [][(db.pc = "loop" /\ db'.pc = "loop" /\ db'.i = db.i + 1) =>
          LET k == db.i + 1
              r == generate_noisy_signal(dbargs.sample_rate, <<db.A[k]>>,
                                         <<db.frequencies[k]>>, <<db.phase[k]>>,
                                         db.noise[k], dbargs.T, np_random)
          IN  /\ db'.features[k] =
                    extract_features(r.signal, dbargs.num_windows,
                                     dbargs.sample_rate).RMS_amplitude
              /\ db'.labels[k] = HighLabel
                    <=> db.frequencies[k] > threshold_of(dbargs)
              /\ db'.labels[k] = LowLabel
                    <=> db.frequencies[k] <= threshold_of(dbargs)
              /\ \A m \in 1..dbargs.num_samples : m # k =>
                    /\ db'.features[m] = db.features[m]
                    /\ db'.labels[m] = db.labels[m]
              /\ db'.A = db.A /\ db'.frequencies = db.frequencies
              /\ db'.phase = db.phase /\ db'.noise = db.noise]_vars

C21_Witness ==
    /\ db.pc = "loop"
    /\ db.i = 2
    /\ db.labels[1] # db.labels[2]
    /\ db.features[1] # db.features[2]
    /\ db.frequencies[1] # db.frequencies[2]

\* the noise magnitudes and the noise flags the running call drew
magnitudes == rs_uniform(-2, 2, RsAfter(2), dbargs.num_samples)
flags == rs_random_integers(0, 1, RsAfter(3), dbargs.num_samples)

\* C22: a noise flag is 0 or 1, each of the two being drawn from some
\* generator state, and the noise scale of a sample is its drawn magnitude
\* times its flag: exactly 0 when the flag is 0, and the magnitude, which lies
\* in [-2, 2), when the flag is 1; that scale is what reaches the synthesizer.
C22_NoiseScaleIsMagnitudeTimesFlag ==
    /\ \A state \in 0..(RsPeriod - 1) :
          rs_random_integers(0, 1, state, 1)[1] \in {0, 1}
    /\ \A v \in {0, 1} : \E state \in 0..(RsPeriod - 1) :
          rs_random_integers(0, 1, state, 1)[1] = v
    /\ Past(4) =>
          \A k \in 1..dbargs.num_samples :
              /\ flags[k] \in {0, 1}
              /\ -2 <= magnitudes[k] /\ magnitudes[k] < 2
              /\ flags[k] = 0 => db.noise[k] = 0
              /\ flags[k] = 1 => db.noise[k] = magnitudes[k]
              /\ slice(db.noise, k - 1, k) = <<magnitudes[k] * flags[k]>>

C22_Witness ==
    /\ db.pc = "loop"
    /\ db.i >= 1
    /\ \E k \in 1..dbargs.num_samples :
          flags[k] = 0 /\ magnitudes[k] # 0 /\ db.noise[k] = 0
    /\ \E k \in 1..dbargs.num_samples :
          flags[k] = 1 /\ magnitudes[k] # 0 /\ db.noise[k] = magnitudes[k]

\* C24: every loop iteration, for i in 0..num_samples-1, passes the
\* synthesizer slices of A, frequencies and phase of length exactly 1, so no
\* generate_database call ends in the synthesizer's AssertionError, whatever
\* num_samples >= 0 is.
C24_SlicesHaveLengthOne ==
    [][(db.pc = "loop" /\ db' # db /\ db.i < dbargs.num_samples) =>
          /\ Len(slice(db.A, db.i, db.i + 1)) = 1
          /\ Len(slice(db.frequencies, db.i, db.i + 1)) = 1
          /\ Len(slice(db.phase, db.i, db.i + 1)) = 1
          /\ lengths_agree(slice(db.A, db.i, db.i + 1),
                           slice(db.frequencies, db.i, db.i + 1),
                           slice(db.phase, db.i, db.i + 1))
          /\ \A j \in 1..Len(results') :
                results'[j].status # "AssertionError"]_vars

C24_Witness ==
    /\ Returned(1)
    /\ dbargs.num_samples = 2
    /\ Len(results[1].labels) = 2
    /\ Len(results) >= 2
    /\ \A j \in 1..Len(results) : results[j].status # "AssertionError"

\* C23: for every band count N >= 1 and spectrum length L >= 1, N > L
\* included, offsets[0] = 0, offsets[i] <= offsets[i+1] for all i and
\* offsets[N] = L, so every band lies within [0, L) and every bin belongs to
\* exactly one band.
C23_OffsetsCoverSpectrum ==
    Extracted =>
        /\ ext.N >= 1 /\ ext.L >= 1
        /\ Len(ext.offsets) = ext.N + 1
        /\ Off(0) = 0
        /\ \A i \in 0..(ext.N - 1) : Off(i) <= Off(i + 1)
        /\ Off(ext.N) = ext.L
        /\ \A b \in 0..(ext.L - 1) :
              Cardinality({i \in 0..(ext.N - 1) : Off(i) <= b /\ b < Off(i + 1)}) = 1

C23_Witness ==
    /\ Extracted
    /\ ext.L >= 2
    /\ ext.N > ext.L + 1
    /\ Off(ext.N) = ext.L
    /\ Off(ext.N - 1) = Off(ext.N)

\* C25: a generate_noisy_signal call that fails its length assertion has
\* drawn no random number: np.random and rs are where they were before it.
C25_FailedCallDrawsNothing ==
    [][(gen' # gen /\ gen'.status = "AssertionError") =>
          /\ np_random' = np_random
          /\ rs' = rs
          /\ gen'.entry = np_random]_vars

C25_Witness ==
    /\ gen.status = "AssertionError"
    /\ args.noise = 1
    /\ num_points(args.T, args.sample_frequency) % RngPeriod # 0
    /\ np_random = gen.entry
    /\ rs = RsSeed

\* C27: extract_features called with N = 0 returns no feature vector, not
\* even an empty one: given a signal that np.fft.rfft accepts it fails with
\* ZeroDivisionError where it computes len(rfft)//N.
C27_ZeroBandsRaises ==
    (ext.status # "none" /\ ext.N = 0) =>
        /\ ext.status # "ok"
        /\ ext.RMS_amplitude = <<>>
        /\ Len(ext.signal) >= 1 => ext.status = "ZeroDivisionError"

C27_Witness ==
    /\ ext.status = "ZeroDivisionError"
    /\ ext.N = 0
    /\ Len(ext.signal) >= 2
    /\ ext.L >= 2

\* C29: the feature vector does not depend on sampling_frequency: a call with
\* the same signal and N but another sampling_frequency returns the same
\* outcome.
C29_SamplingFrequencyUnused ==
    ext.status # "none" =>
        LET other == extract_features(ext.signal, ext.N, args.sample_frequency + 1)
        IN  /\ other.status = ext.status
            /\ other.RMS_amplitude = ext.RMS_amplitude
            /\ ext = extract_features(ext.signal, ext.N, args.sample_frequency)

C29_Witness ==
    /\ Extracted
    /\ ext.N >= 2
    /\ ext.N <= ext.L
    /\ ext.RMS_amplitude[1].val > 0
    /\ ext.RMS_amplitude =
          extract_features(ext.signal, ext.N, 2 * args.sample_frequency).RMS_amplitude

\* the number of batches the running call has drawn
BatchesDrawn ==
    IF Past(5) THEN 5 ELSE IF Past(4) THEN 4 ELSE IF Past(3) THEN 3
    ELSE IF Past(2) THEN 2 ELSE IF Past(1) THEN 1 ELSE 0

\* C26: in a session that does not re-seed, no call resets rs: call number k
\* starts at the rs state call k-1 left, so after k calls with num_samples = n
\* rs is the seeded state advanced by k blocks of five batches of n draws.
C26_CallsContinueTheStream ==
    LET n == dbargs.num_samples
    IN  /\ \A k \in 1..Len(results) :
              /\ results[k].rs_entry = (RsSeed + (k - 1) * 5 * n) % RsPeriod
              /\ results[k].rs_exit = (RsSeed + k * 5 * n) % RsPeriod
              /\ k > 1 => results[k].rs_entry = results[k - 1].rs_exit
        /\ rs = (RsSeed + Len(results) * 5 * n + BatchesDrawn * n) % RsPeriod
        /\ db.pc # "idle" =>
              db.rs_entry = (RsSeed + Len(results) * 5 * n) % RsPeriod

C26_Witness ==
    /\ Len(results) >= 2
    /\ dbargs.num_samples >= 1
    /\ Returned(1)
    /\ Returned(2)
    /\ results[2].rs_entry = results[1].rs_exit
    /\ results[2].rs_entry # RsSeed
    /\ results[2].rs_exit # results[1].rs_exit
    /\ rs = results[2].rs_exit

\* C28: in the ann.ipynb generate_database every drawn frequency f satisfies
\* 0 <= f < sample_rate // 2, and when sample_rate // 2 <= threshold every
\* sample gets the low label.
C28_FrequenciesBelowNyquist ==
    dbargs.variant = "ann" =>
        /\ Past(5) =>
              \A k \in 1..dbargs.num_samples :
                  /\ 0 <= db.frequencies[k]
                  /\ db.frequencies[k] < dbargs.sample_rate \div 2
        /\ \A i \in 1..Len(results) : Returned(i) =>
              \A k \in 1..Len(results[i].labels) :
                  /\ 0 <= results[i].frequencies[k]
                  /\ results[i].frequencies[k] < dbargs.sample_rate \div 2
                  /\ dbargs.sample_rate \div 2 <= dbargs.threshold =>
                        results[i].labels[k] = dbargs.low

C28_Witness ==
    /\ dbargs.variant = "ann"
    /\ dbargs.sample_rate \div 2 <= dbargs.threshold
    /\ Returned(1)
    /\ Len(results[1].labels) >= 2
    /\ \E k \in 1..Len(results[1].labels) :
          results[1].frequencies[k] > 0 /\ results[1].labels[k] = dbargs.low

====
